---- MODULE Spec2Model ----
(***************************************************************************)
(* Zoobot: the training-step controller of                                 *)
(* zoobot/pytorch/estimators/define_model.py (GenericLightningModule and   *)
(* ZoobotLightningModule), the Dirichlet-multinomial loss it consumes and  *)
(* the way per-replica losses combine under data-parallel training; the    *)
(* module's construction (SpecBuild), the catalogs of                      *)
(* train_with_keras.train (SpecTrain), the cache directory of              *)
(* only_for_me/narval/train.py (SpecCache), the pool of                    *)
(* only_for_me/png_to_jpg.py (SpecJpg) and the shards of                   *)
(* webdataset_utils.df_to_wds and make_mock_wds (SpecWds).                 *)
(*                                                                         *)
(* Numbers.  A torch scalar is modelled as an exact rational               *)
(* [num, den] in lowest terms; den = 0 is NaN.  Losses are in thousandths  *)
(* of a nat, concentrations in hundredths (1 is 0.01, 100 is 1.0).         *)
(***************************************************************************)
EXTENDS Integers, Sequences, FiniteSets, TLC

\* Largest number of examples in one batch.
MaxBatch == 2

\* Largest number of examples the accuracy metric accumulates in a run.
MaxSeen == 2

(***************************************************************************)
(* Scalars                                                                 *)
(***************************************************************************)
Abs(n) == IF n < 0 THEN -n ELSE n

RECURSIVE GCD(_, _)
GCD(a, b) == IF b = 0 THEN a ELSE GCD(b, a % b)

NaN == [num |-> 0, den |-> 0]

IsNaN(a) == a.den = 0

\* n / d, d > 0, in lowest terms.
Rat(n, d) ==
    LET g == GCD(Abs(n), d)
    IN  [num |-> n \div g, den |-> d \div g]

Scalar(n) == [num |-> n, den |-> 1]

RatAdd(a, b) ==
    IF IsNaN(a) \/ IsNaN(b)
    THEN NaN
    ELSE Rat(a.num * b.den + b.num * a.den, a.den * b.den)

\* a / k; k = 0 divides by zero, which torch answers with NaN for 0 / 0.
RatDivInt(a, k) ==
    IF IsNaN(a) \/ k = 0 THEN NaN ELSE Rat(a.num, a.den * k)

RECURSIVE TorchSum(_)
TorchSum(s) ==
    IF s = <<>> THEN Scalar(0) ELSE RatAdd(Head(s), TorchSum(Tail(s)))

TorchMean(s) == RatDivInt(TorchSum(s), Len(s))

\* torch.argmax over one row: the index (from 0) of the first maximal value.
Argmax(row) ==
    (CHOOSE j \in 1..Len(row) :
        /\ \A k \in 1..Len(row) : row[k] <= row[j]
        /\ \A k \in 1..(j - 1) : row[k] < row[j]) - 1

(***************************************************************************)
(* Loss Engine: zoobot.pytorch.training.losses.calculate_multiquestion_loss *)
(* The file is not part of the sources at hand; it is modelled from the    *)
(* design document (section 4.2).                                          *)
(***************************************************************************)

\* log-gamma in thousandths, of an argument in hundredths.
LGammaTable ==
    { <<1, 4599>>, <<2, 3901>>, <<100, 0>>, <<101, -6>>,
      <<102, -11>>, <<200, 0>>, <<201, 4>>, <<202, 9>>,
      <<300, 693>>, <<301, 702>>, <<302, 712>>, <<400, 1792>>,
      <<401, 1804>>, <<402, 1817>>, <<500, 3178>>, <<501, 3193>>,
      <<600, 4787>>, <<700, 6579>>, <<800, 8525>>, <<5000, 144566>>, <<5001, 144605>>, <<5100, 148478>>,
      <<5101, 148517>>, <<5200, 152410>>, <<5201, 152449>>, <<5300, 156361>>,
      <<5301, 156400>>, <<5400, 160331>>, <<5401, 160371>>, <<5500, 164320>>,
      <<10000, 359134>>, <<10100, 363739>>, <<10200, 368354>>, <<10300, 372979>>,
      <<10400, 377614>>, <<100000, 5905220>>, <<100001, 5905289>>, <<100100, 5912128>>,
      <<100101, 5912197>>, <<100200, 5919037>>, <<100201, 5919106>>, <<100300, 5925947>>,
      <<100301, 5926016>>, <<100400, 5932857>>, <<100401, 5932927>>, <<100500, 5939769>>,
      <<105000, 6251813>>, <<105100, 6258770>>, <<105200, 6265728>>, <<105300, 6272686>>,
      <<105400, 6279645>>, <<200000, 13198923>>, <<200100, 13206524>>, <<200200, 13214126>>,
      <<200300, 13221728>>, <<200400, 13229330>> }

LGamma(x) == (CHOOSE p \in LGammaTable : p[1] = x)[2]

RECURSIVE SumInts(_)
SumInts(s) == IF s = <<>> THEN 0 ELSE Head(s) + SumInts(Tail(s))

\* row[start:end], a half-open range of indices counted from 0.
Slice(row, group) == SubSeq(row, group[1] + 1, group[2])

\* Mutant of DirichletMultinomialLoss: the log_gamma(c) of the last sum left
\* out.
DirichletMultinomialLossNoPrior(k, c) ==
    LET n    == SumInts(k)
        sumc == SumInts(c)
        m    == Len(k)
        loglik ==
            LGamma(100 * (n + 1))
            - SumInts([j \in 1..m |-> LGamma(100 * (k[j] + 1))])
            + LGamma(sumc)
            - LGamma(100 * n + sumc)
            + SumInts([j \in 1..m |-> LGamma(100 * k[j] + c[j])])
    IN  IF sumc = 0 THEN NaN ELSE Scalar(0 - loglik)

\* Section 4.2 step 3 for one example and one question: k the vote counts and
\* c the concentrations of the question's slice.  The formula of step 3 is the
\* log-likelihood; the entry of the matrix is its negation (section 3).
\* An empty slice has sum(c) = 0, log_gamma(0) is +inf and inf - inf is NaN.
DirichletMultinomialLoss(k, c) ==
    LET n    == SumInts(k)
        sumc == SumInts(c)
        m    == Len(k)
        loglik ==
            LGamma(100 * (n + 1))
            - SumInts([j \in 1..m |-> LGamma(100 * (k[j] + 1))])
            + LGamma(sumc)
            - LGamma(100 * n + sumc)
            + SumInts([j \in 1..m |-> LGamma(100 * k[j] + c[j]) - LGamma(c[j])])
    IN  IF sumc = 0 THEN NaN ELSE Scalar(0 - loglik)

\* Section 4.2, error conditions: the two batches disagree in size or in
\* length, or a concentration is not positive.
LossRaises(labels_, preds_) ==
    \/ Len(labels_) # Len(preds_)
    \/ \E i \in 1..Len(preds_) :
          \/ Len(labels_[i]) # Len(preds_[i])
          \/ \E j \in 1..Len(preds_[i]) : preds_[i][j] <= 0

\* calculate_multiquestion_loss(labels, predictions, question_index_groups):
\* the matrix of shape (batch, question).
CalculateMultiquestionLoss(labels_, preds_, groups) ==
    [i \in 1..Len(labels_) |->
        [q \in 1..Len(groups) |->
            DirichletMultinomialLoss(Slice(labels_[i], groups[q]),
                                     Slice(preds_[i], groups[q]))]]

(***************************************************************************)
(* define_model.py                                                         *)
(***************************************************************************)

\* get_loss_func(question_index_groups).loss_func: takes (preds, labels) and
\* hands them on as (labels, preds).
\* Mutant of LossFuncValue: the two tensors reach the Loss Engine in each
\* other's place (a vote count v read as the concentration v.0, i.e. 100 v
\* hundredths; a whole concentration read as that many votes).
LossFuncValueSwapped(preds_, labels_, groups, sum_over_questions) ==
    LET as_votes == [i \in 1..Len(preds_) |->
                        [j \in 1..Len(preds_[i]) |-> preds_[i][j] \div 100]]
        as_concentrations ==
            [i \in 1..Len(labels_) |->
                [j \in 1..Len(labels_[i]) |-> 100 * labels_[i][j]]]
        m == CalculateMultiquestionLoss(as_votes, as_concentrations, groups)
    IN  IF sum_over_questions
        THEN [i \in 1..Len(m) |-> TorchSum(m[i])]
        ELSE m

LossFuncValue(preds_, labels_, groups, sum_over_questions) ==
    LET m == CalculateMultiquestionLoss(labels_, preds_, groups)
    IN  IF sum_over_questions
        THEN [i \in 1..Len(m) |-> TorchSum(m[i])]
        ELSE m

\* multiq_loss[:, question_n], question_n counted from 0.
Column(m, question_n) == [i \in 1..Len(m) |-> m[i][question_n + 1]]

\* multiq_loss.shape[1]
NumQuestions(m) == Len(m[1])

\* Mutant of MakeStepLoss: torch.mean(multiq_loss), the sum over the questions
\* forgotten.
MakeStepLossMeanOfAll(m) ==
    RatDivInt(TorchSum([i \in 1..Len(m) |-> TorchSum(m[i])]),
              Len(m) * NumQuestions(m))

\* make_step, line 55: torch.mean(torch.sum(multiq_loss, axis=1)).
MakeStepLoss(m) == TorchMean([i \in 1..Len(m) |-> TorchSum(m[i])])

\* setup_metrics, line 35.
log_on_step == FALSE

\* A metric name is the sequence of the pieces str.format / the f-string joins.
EpochLossName(step_name_) == <<step_name_, "/epoch_loss">>

StepLossName(step_name_) == <<step_name_, "/step_loss">>

AccuracyName(step_name_) == <<step_name_, "_accuracy">>

\* Mutant of QuestionLossName: the phase is always "train".
QuestionLossNameTrainOnly(prefix, question_n) ==
    <<"train", "/epoch_questions/question_", ToString(question_n), "_loss:0">>

QuestionLossName(prefix, question_n) ==
    <<prefix, "/epoch_questions/question_", ToString(question_n), "_loss:0">>

\* Mutant of LogLossPerQuestionCalls: range(1, shape[1]), the first question
\* skipped.
LogLossPerQuestionCallsFromOne(m, prefix) ==
    [n \in 1..(NumQuestions(m) - 1) |->
        [name  |-> QuestionLossName(prefix, n),
         value |-> TorchMean(Column(m, n))]]

\* log_loss_per_question: the calls of self.log, in order.
LogLossPerQuestionCalls(m, prefix) ==
    [n \in 1..NumQuestions(m) |->
        [name  |-> QuestionLossName(prefix, n - 1),
         value |-> TorchMean(Column(m, n - 1))]]

\* torchmetrics.Accuracy, called on (predictions, argmax of the labels): the
\* number of examples whose argmax agrees.
NumCorrect(preds_, labels_) ==
    Cardinality({i \in 1..Len(preds_) : Argmax(preds_[i]) = Argmax(labels_[i])})

\* Mutant of IsBinary: shape[1] >= 2.
IsBinaryOrWider(preds_) == Len(preds_[1]) >= 2

\* log_outputs, line 95: outputs['predictions'].shape[1] == 2.
IsBinary(preds_) == Len(preds_[1]) = 2

(***************************************************************************)
(* Inputs                                                                  *)
(***************************************************************************)

\* (output_dim, question_index_groups) given to ZoobotLightningModule: one
\* binary question, two questions, two overlapping ranges, an empty range.
ModuleArgs ==
    { [output_dim |-> 2, question_index_groups |-> << <<0, 2>> >>],
      [output_dim |-> 3, question_index_groups |-> << <<0, 2>>, <<2, 3>> >>],
      [output_dim |-> 3, question_index_groups |-> << <<0, 2>>, <<1, 3>> >>],
      [output_dim |-> 3, question_index_groups |-> << <<0, 2>>, <<2, 2>> >>] }

\* Vote counts of one answer.
Votes == {0, 2}

\* Vote-count rows the data pipeline yields.
LabelRows(dim) == [1..dim -> Votes]

\* Rows the backbone yields: confident in the first or in the last answer, or
\* (a defect upstream) all zero.
BackboneRows(dim) ==
    { [j \in 1..dim |-> IF j = p THEN 5000 ELSE 100] : p \in {1, dim} }
        \cup { [j \in 1..dim |-> 0] }

Batches(rows) == UNION { [1..b -> rows] : b \in 1..MaxBatch }

StepNames == {"train", "validation", "test"}

(***************************************************************************)
(* State                                                                   *)
(***************************************************************************)
VARIABLES
    constructed,            \* ZoobotLightningModule.__init__ has returned
    output_dim,             \* hparams
    question_index_groups,  \* the ranges loss_func closes over
    train_accuracy,         \* self.train_accuracy: [correct, total]
    val_accuracy,           \* self.val_accuracy: [correct, total]
    pc,                     \* where the current step is
    step_name,              \* the phase of the current step
    labels,                 \* batch[1]
    predictions,            \* self(x)
    multiq_loss,            \* the matrix loss_func returned, <<>> before
    outputs,                \* <<the dict make_step returned>>, <<>> before
    logged,                 \* the calls of self.log of the current step
    loss_calls,             \* calls of self.loss_func in the current step
    handed,                 \* <<the loss the optimizer got>>, <<>> before
    framework,              \* data-parallel run: "pytorch" or "tensorflow"
    replica_batch,          \* per replica, its per-question loss matrix
    replica_loss,           \* per replica, <<its scalar loss>>, <<>> before
    combined,               \* <<the loss the update follows>>, <<>> before
    build_pc,               \* where ZoobotLightningModule.__init__ is
    build_args,             \* the arguments of that __init__
    get_architecture,       \* the backbone factory selected, "none" before
    representation_dim,     \* the width selected with it, 0 before
    loss_func,              \* <<the ranges self.loss_func closes over>>
    modules_to_use,         \* the list get_plain_pytorch_zoobot_model fills
    model,                  \* <<self.model>>, <<>> before
    build_error,            \* the exception __init__ ended with, "none"
    train_pc,               \* where train_with_keras.train is
    train_args,             \* its arguments; a catalog is <<its length>>
    splits,                 \* the lengths of the three catalogs it trains on
    save_dir_path,          \* at save_dir: "absent", "dir", "file", "noparent"
    dir_created,            \* train has called os.mkdir
    datasets_built,         \* the three image datasets exist
    model_defined,          \* define_model.get_model has returned
    train_error,            \* the exception train ended with, "none"
    cache_pc,               \* per process of narval/train.py, where it is
    cache_env,              \* what the process finds: mode, tmpdir, shards
    cache_path,             \* what is at cache_dir: "absent", "dir", "file"
    cache_outcome,          \* per process, how it came by the directory
    jpg_pc,                 \* per pool worker, where to_jpg is
    jpg_chunk,              \* per pool worker, the images left of its chunk
    jpg_pending,            \* the chunks no worker has taken yet
    target_dir_exists,      \* os.path.isdir(target_dir)
    jpg_exists,             \* the images whose jpeg exists
    jpg_writes,             \* per image, the saves made by the workers
    jpg_error,              \* per pool worker, the last exception raised
    png_exists,             \* the images whose source file exists
    jpg_results,            \* the tasks' results the parent has yet to see
    parent_pc,              \* where the loop of lines 34-35 is
    parent_seen,            \* the results that loop has been given
    wds_pc,                 \* where df_to_wds or make_mock_wds is
    wds_args,               \* its arguments; df is the sequence of its rows
    shard_dfs,              \* what np.array_split returned
    shards,                 \* make_mock_wds: the paths of its shards
    counter,                \* make_mock_wds: the samples written
    shard_n,                \* the shard of the current iteration
    row_n,                  \* rows of that shard written so far
    files,                  \* the tar files: name, keys written, writer open
    wds_error               \* the exception the call ended with, "none"

moduleVars == <<constructed, output_dim, question_index_groups>>

stepVars == <<train_accuracy, val_accuracy, pc, step_name, labels,
              predictions, multiq_loss, outputs, logged, loss_calls, handed>>

ddpVars == <<framework, replica_batch, replica_loss, combined>>

buildVars == <<build_pc, build_args, get_architecture, representation_dim,
               loss_func, modules_to_use, model, build_error>>

\* The variables outside the module's steps and the data-parallel run.
trainVars == <<train_pc, train_args, splits, save_dir_path, dir_created,
               datasets_built, model_defined, train_error>>

cacheVars == <<cache_pc, cache_env, cache_path, cache_outcome>>

jpgVars == <<jpg_pc, jpg_chunk, jpg_pending, target_dir_exists, jpg_exists,
             jpg_writes, jpg_error, png_exists, jpg_results, parent_pc,
             parent_seen>>

wdsVars == <<wds_pc, wds_args, shard_dfs, shards, counter, shard_n, row_n,
             files, wds_error>>

restVars == <<buildVars, trainVars, cacheVars, jpgVars, wdsVars>>

vars == <<moduleVars, stepVars, ddpVars, restVars>>

NewAccuracy == [correct |-> 0, total |-> 0]

NoModule ==
    /\ constructed = FALSE
    /\ output_dim = 0
    /\ question_index_groups = <<>>

NoStep ==
    /\ train_accuracy = NewAccuracy
    /\ val_accuracy = NewAccuracy
    /\ pc = "idle"
    /\ step_name = "none"
    /\ labels = <<>>
    /\ predictions = <<>>
    /\ multiq_loss = <<>>
    /\ outputs = <<>>
    /\ logged = <<>>
    /\ loss_calls = 0
    /\ handed = <<>>

NoReplicas ==
    /\ framework = "none"
    /\ replica_batch = <<>>
    /\ replica_loss = <<>>
    /\ combined = <<>>

NoModules == [backbone |-> "none", head |-> <<>>]

NoBuild ==
    /\ build_pc = "none"
    /\ build_args = <<>>
    /\ get_architecture = "none"
    /\ representation_dim = 0
    /\ loss_func = <<>>
    /\ modules_to_use = NoModules
    /\ model = <<>>
    /\ build_error = "none"

NoSplits == [train |-> 0, val |-> 0, test |-> 0]

NoTrain ==
    /\ train_pc = "none"
    /\ train_args = <<>>
    /\ splits = NoSplits
    /\ save_dir_path = "absent"
    /\ dir_created = FALSE
    /\ datasets_built = FALSE
    /\ model_defined = FALSE
    /\ train_error = "none"

NoCache ==
    /\ cache_pc = <<>>
    /\ cache_env = <<>>
    /\ cache_path = "absent"
    /\ cache_outcome = <<>>

NoJpg ==
    /\ jpg_pc = <<>>
    /\ jpg_chunk = <<>>
    /\ jpg_pending = {}
    /\ target_dir_exists = FALSE
    /\ jpg_exists = {}
    /\ jpg_writes = <<>>
    /\ jpg_error = <<>>
    /\ png_exists = {}
    /\ jpg_results = <<>>
    /\ parent_pc = "none"
    /\ parent_seen = 0

NoWds ==
    /\ wds_pc = "none"
    /\ wds_args = <<>>
    /\ shard_dfs = <<>>
    /\ shards = <<>>
    /\ counter = 0
    /\ shard_n = 0
    /\ row_n = 0
    /\ files = {}
    /\ wds_error = "none"

NoRest == NoBuild /\ NoTrain /\ NoCache /\ NoJpg /\ NoWds

Init == NoModule /\ NoStep /\ NoReplicas /\ NoRest

\* ZoobotLightningModule.__init__: GenericLightningModule.__init__ (which
\* runs setup_metrics), then loss_func = get_loss_func(question_index_groups).
Construct ==
    /\ ~constructed
    /\ \E args \in ModuleArgs :
          /\ output_dim' = args.output_dim
          /\ question_index_groups' = args.question_index_groups
    /\ constructed' = TRUE
    /\ train_accuracy' = NewAccuracy
    /\ val_accuracy' = NewAccuracy
    /\ UNCHANGED <<restVars, ddpVars, pc, step_name, labels, predictions, multiq_loss,
                   outputs, logged, loss_calls, handed>>

\* The trainer starts a step when none is running.
StepMayStart ==
    /\ constructed
    /\ pc = "idle"

\* make_step, lines 43-44: unpack the batch and run the forward pass.
Forward(name) ==
    /\ StepMayStart
    /\ \E ls \in Batches(LabelRows(output_dim)),
          ps \in Batches(BackboneRows(output_dim)) :
          /\ output_dim = 2 => train_accuracy.total + Len(ps) <= MaxSeen
          /\ labels' = ls
          /\ predictions' = ps
    /\ step_name' = name
    /\ pc' = "Forward"
    /\ multiq_loss' = <<>>
    /\ outputs' = <<>>
    /\ logged' = <<>>
    /\ loss_calls' = 0
    /\ handed' = <<>>
    /\ UNCHANGED <<restVars, ddpVars, moduleVars, train_accuracy, val_accuracy>>

\* Mutant of LossFunc: a failed loss call is tried once more before the error
\* leaves make_step.
LossFuncRetry ==
    /\ pc = "Forward"
    /\ IF LossRaises(labels, predictions)
       THEN /\ pc' = "Raised"
            /\ loss_calls' = loss_calls + 2
            /\ UNCHANGED multiq_loss
       ELSE /\ pc' = "LossComputed"
            /\ loss_calls' = loss_calls + 1
            /\ multiq_loss' = LossFuncValue(predictions, labels,
                                            question_index_groups, FALSE)
    /\ UNCHANGED <<restVars, ddpVars, moduleVars, train_accuracy, val_accuracy, step_name, labels,
                   predictions, outputs, logged, handed>>

\* make_step, line 48: self.loss_func(predictions, labels).  An error of the
\* loss leaves make_step: nothing after line 48 runs.
LossFunc ==
    /\ pc = "Forward"
    /\ loss_calls' = loss_calls + 1
    /\ IF LossRaises(labels, predictions)
       THEN /\ pc' = "Raised"
            /\ UNCHANGED multiq_loss
       ELSE /\ pc' = "LossComputed"
            /\ multiq_loss' = LossFuncValue(predictions, labels,
                                            question_index_groups, FALSE)
    /\ UNCHANGED <<restVars, ddpVars, moduleVars, train_accuracy, val_accuracy, step_name, labels,
                   predictions, outputs, logged, handed>>

\* make_step, line 50: self.log_loss_per_question(multiq_loss, prefix=step_name).
LogLossPerQuestion ==
    /\ pc = "LossComputed"
    /\ logged' = logged \o LogLossPerQuestionCalls(multiq_loss, step_name)
    /\ pc' = "QuestionsLogged"
    /\ UNCHANGED <<restVars, ddpVars, moduleVars, train_accuracy, val_accuracy, step_name, labels,
                   predictions, multiq_loss, outputs, loss_calls, handed>>

\* Mutant of Reduce: make_step logs the aggregate loss itself, before it has
\* the scalar.
ReduceAfterLogging ==
    /\ pc = "QuestionsLogged"
    /\ outputs' = << [loss        |-> MakeStepLoss(multiq_loss),
                      predictions |-> predictions,
                      labels      |-> labels] >>
    /\ logged' = logged \o << [name  |-> EpochLossName(step_name),
                                value |-> MakeStepLoss(multiq_loss)] >>
    /\ pc' = "Reduced"
    /\ UNCHANGED <<restVars, ddpVars, moduleVars, train_accuracy, val_accuracy, step_name, labels,
                   predictions, multiq_loss, loss_calls, handed>>

\* make_step, lines 55-57: reduce to the scalar and return the dict.
Reduce ==
    /\ pc = "QuestionsLogged"
    /\ outputs' = << [loss        |-> MakeStepLoss(multiq_loss),
                      predictions |-> predictions,
                      labels      |-> labels] >>
    /\ pc' = "Reduced"
    /\ UNCHANGED <<restVars, ddpVars, moduleVars, train_accuracy, val_accuracy, step_name, labels,
                   predictions, multiq_loss, logged, loss_calls, handed>>

\* torchmetrics.Accuracy.forward: add the batch to the accumulator.
AccuracyUpdate(acc, preds_, labels_) ==
    [correct |-> acc.correct + NumCorrect(preds_, labels_),
     total   |-> acc.total + Len(preds_)]

\* torchmetrics.Accuracy.forward: the accuracy of the batch.
AccuracyValue(preds_, labels_) == Rat(NumCorrect(preds_, labels_), Len(preds_))

\* log_outputs: the calls of self.log, in order.
LogOutputsCalls(outs, name_) ==
    << [name |-> EpochLossName(name_), value |-> outs.loss] >>
    \o (IF log_on_step
        THEN << [name |-> StepLossName(name_), value |-> outs.loss] >>
        ELSE << >>)
    \o (IF IsBinary(outs.predictions)
        THEN << [name  |-> AccuracyName(name_),
                 value |-> AccuracyValue(outs.predictions, outs.labels)] >>
        ELSE << >>)

\* log_outputs(outputs, step_name), lines 89-98.  The accumulator called on
\* line 98 is self.train_accuracy, whatever step_name is.
LogOutputs(name_) ==
    /\ pc = "Reduced"
    /\ step_name = name_
    /\ logged' = logged \o LogOutputsCalls(outputs[1], name_)
    /\ train_accuracy' =
          IF IsBinary(outputs[1].predictions)
          THEN AccuracyUpdate(train_accuracy, outputs[1].predictions,
                              outputs[1].labels)
          ELSE train_accuracy
    /\ pc' = "Logged"
    /\ UNCHANGED <<restVars, ddpVars, moduleVars, val_accuracy, step_name, labels, predictions,
                   multiq_loss, outputs, loss_calls, handed>>

TrainingStep == Forward("train")

ValidationStep == Forward("validation")

TestStep == Forward("test")

TrainingStepEnd == LogOutputs("train")

ValidationStepEnd == LogOutputs("validation")

TestStepEnd == LogOutputs("test")

\* The training loop, after training_step_end: the loss of the step goes to
\* the optimizer configure_optimizers returned.
OptimizerStep ==
    /\ pc = "Logged"
    /\ step_name = "train"
    /\ handed' = <<outputs[1].loss>>
    /\ pc' = "Optimized"
    /\ UNCHANGED <<restVars, ddpVars, moduleVars, train_accuracy, val_accuracy, step_name, labels,
                   predictions, multiq_loss, outputs, logged, loss_calls>>

\* The loop goes on to the next batch: the tensors of the step are dropped.
NextBatch ==
    /\ \/ pc = "Optimized"
       \/ pc = "Logged" /\ step_name # "train"
    /\ pc' = "idle"
    /\ step_name' = "none"
    /\ labels' = <<>>
    /\ predictions' = <<>>
    /\ multiq_loss' = <<>>
    /\ outputs' = <<>>
    /\ logged' = <<>>
    /\ loss_calls' = 0
    /\ handed' = <<>>
    /\ UNCHANGED <<restVars, ddpVars, moduleVars, train_accuracy, val_accuracy>>

Next ==
    \/ Construct
    \/ TrainingStep
    \/ ValidationStep
    \/ TestStep
    \/ LossFunc
    \/ LogLossPerQuestion
    \/ Reduce
    \/ TrainingStepEnd
    \/ ValidationStepEnd
    \/ TestStepEnd
    \/ OptimizerStep
    \/ NextBatch

Spec == Init /\ [][Next]_vars

(***************************************************************************)
(* The Loss Engine over one example: the inputs of one step, drawn wider.  *)
(***************************************************************************)

\* 0.01, 1, 50 and 1000.
Concentrations == {1, 100, 5000, 100000}

EngineVotes == {0, 1, 2}

LossInit ==
    /\ constructed = TRUE
    /\ output_dim = 4
    /\ question_index_groups = << <<0, 2>>, <<2, 4>> >>
    /\ train_accuracy = NewAccuracy
    /\ val_accuracy = NewAccuracy
    /\ pc = "Forward"
    /\ step_name = "train"
    /\ labels \in [1..1 -> [1..4 -> EngineVotes]]
    /\ predictions \in [1..1 -> [1..4 -> Concentrations]]
    /\ multiq_loss = <<>>
    /\ outputs = <<>>
    /\ logged = <<>>
    /\ loss_calls = 0
    /\ handed = <<>>
    /\ NoReplicas
    /\ NoRest

LossNext == LossFunc \/ LogLossPerQuestion \/ Reduce

SpecLoss == LossInit /\ [][LossNext]_vars

\* The same step over votes and whole concentrations of the same magnitude,
\* where the two tensors could stand in for each other.
CallVotes == {1, 2}

\* 1 and 2.
CallConcentrations == {100, 200}

CallInit ==
    /\ constructed = TRUE
    /\ output_dim = 4
    /\ question_index_groups = << <<0, 2>>, <<2, 4>> >>
    /\ train_accuracy = NewAccuracy
    /\ val_accuracy = NewAccuracy
    /\ pc = "Forward"
    /\ step_name = "train"
    /\ labels \in [1..1 -> [1..4 -> CallVotes]]
    /\ predictions \in [1..1 -> [1..4 -> CallConcentrations]]
    /\ multiq_loss = <<>>
    /\ outputs = <<>>
    /\ logged = <<>>
    /\ loss_calls = 0
    /\ handed = <<>>
    /\ NoReplicas
    /\ NoRest

SpecCall == CallInit /\ [][LossNext]_vars

(***************************************************************************)
(* Data-parallel training: one global batch, split over replicas.          *)
(***************************************************************************)

\* Largest number of replicas.
MaxReplicas == 2

\* Number of examples of the global batch.
GlobalBatch == 8

\* The per-question losses of example e: no two examples have the same sum.
ExampleRow(e) == <<Scalar(e), Scalar(1)>>

\* The loss matrix of the examples placed on replica r, in data order.
Shard(placement, r) ==
    LET OnReplica(e) == placement[e] = r
        examples == SelectSeq([e \in 1..GlobalBatch |-> e], OnReplica)
    IN  [i \in 1..Len(examples) |-> ExampleRow(examples[i])]

ReplicaInit ==
    /\ constructed = TRUE
    /\ output_dim = 3
    /\ question_index_groups = << <<0, 2>>, <<2, 3>> >>
    /\ NoStep
    /\ framework \in {"pytorch", "tensorflow"}
    /\ \E n \in 2..MaxReplicas :
          \E placement \in [1..GlobalBatch -> 1..n] :
             /\ \A r \in 1..n : \E e \in 1..GlobalBatch : placement[e] = r
             /\ replica_batch = [r \in 1..n |-> Shard(placement, r)]
             /\ replica_loss = [r \in 1..n |-> <<>>]
    /\ combined = <<>>
    /\ NoRest

\* Mutant of ComputeAverageLoss: the replica divides by its own batch size
\* only.
ComputeAverageLossPerReplica(per_example_loss, num_replicas) ==
    RatDivInt(TorchSum(per_example_loss), Len(per_example_loss))

\* train_with_keras.py, line 182: tf.nn.compute_average_loss with its default
\* global batch size, per_replica_batch_size * num_replicas (lines 178-180).
ComputeAverageLoss(per_example_loss, num_replicas) ==
    RatDivInt(TorchSum(per_example_loss), Len(per_example_loss) * num_replicas)

\* The scalar loss of one replica: make_step (pytorch), loss (tensorflow; the
\* multi-question loss with reduction NONE is summed over the questions).
ReplicaLoss(fw, m, num_replicas) ==
    IF fw = "pytorch"
    THEN MakeStepLoss(m)
    ELSE ComputeAverageLoss([i \in 1..Len(m) |-> TorchSum(m[i])], num_replicas)

\* The loss the update follows.  DDP averages the gradients of the replicas,
\* MirroredStrategy sums them (train_with_keras.py, line 82).
CombinedLoss(fw, losses) ==
    IF fw = "pytorch" THEN TorchMean(losses) ELSE TorchSum(losses)

ReplicaStep(r) ==
    /\ replica_loss[r] = <<>>
    /\ replica_loss' =
          [replica_loss EXCEPT
              ![r] = <<ReplicaLoss(framework, replica_batch[r],
                                   Len(replica_batch))>>]
    /\ UNCHANGED <<restVars, moduleVars, stepVars, framework, replica_batch, combined>>

\* The barrier: every replica has its loss.
AllReduce ==
    /\ replica_batch # <<>>
    /\ combined = <<>>
    /\ \A r \in 1..Len(replica_loss) : replica_loss[r] # <<>>
    /\ combined' =
          <<CombinedLoss(framework,
                         [r \in 1..Len(replica_loss) |-> replica_loss[r][1]])>>
    /\ UNCHANGED <<restVars, moduleVars, stepVars, framework, replica_batch, replica_loss>>

ReplicaNext ==
    \/ \E r \in 1..Len(replica_batch) : ReplicaStep(r)
    \/ AllReduce

SpecReplicas == ReplicaInit /\ [][ReplicaNext]_vars

(***************************************************************************)
(* ZoobotLightningModule.__init__, statement by statement.  An optional     *)
(* argument is <<>> for None and <<v>> for the value v.                    *)
(***************************************************************************)

\* Mutant of SelectBaseArchitectureFuncFromName: an unrecognised name falls
\* back to the default backbone.
SelectBaseArchitectureFuncFromNameWithDefault(base_architecture) ==
    IF base_architecture \in {"efficientnet_b2", "efficientnetb2"}
    THEN [raised |-> "none", get_architecture |-> "efficientnet_standard.efficientnet_b2",
          representation_dim |-> 1408]
    ELSE IF base_architecture \in {"efficientnet_b4", "efficientnetb4"}
    THEN [raised |-> "none", get_architecture |-> "efficientnet_standard.efficientnet_b4",
          representation_dim |-> 1792]
    ELSE IF base_architecture = "resnet_detectron"
    THEN [raised |-> "none", get_architecture |-> "resnet_detectron2_custom.get_resnet",
          representation_dim |-> 2048]
    ELSE IF base_architecture = "resnet_torchvision"
    THEN [raised |-> "none", get_architecture |-> "resnet_torchvision_custom.get_resnet",
          representation_dim |-> 2048]
    ELSE [raised |-> "none", get_architecture |-> "efficientnet_standard.efficientnet_b0",
          representation_dim |-> 1280]

\* select_base_architecture_func_from_name: the if/elif chain and its else.
SelectBaseArchitectureFuncFromName(base_architecture) ==
    IF base_architecture = "efficientnet"
    THEN [raised |-> "none", get_architecture |-> "efficientnet_standard.efficientnet_b0",
          representation_dim |-> 1280]
    ELSE IF base_architecture = "efficientnet_b2" \/ base_architecture = "efficientnetb2"
    THEN [raised |-> "none", get_architecture |-> "efficientnet_standard.efficientnet_b2",
          representation_dim |-> 1408]
    ELSE IF base_architecture = "efficientnet_b4" \/ base_architecture = "efficientnetb4"
    THEN [raised |-> "none", get_architecture |-> "efficientnet_standard.efficientnet_b4",
          representation_dim |-> 1792]
    ELSE IF base_architecture = "resnet_detectron"
    THEN [raised |-> "none", get_architecture |-> "resnet_detectron2_custom.get_resnet",
          representation_dim |-> 2048]
    ELSE IF base_architecture = "resnet_torchvision"
    THEN [raised |-> "none", get_architecture |-> "resnet_torchvision_custom.get_resnet",
          representation_dim |-> 2048]
    ELSE [raised |-> "ValueError", get_architecture |-> "none",
          representation_dim |-> 0]

\* get_plain_pytorch_zoobot_model: the list it has filled when it returns or
\* raises, the exception if any, and the model it returns.
GetPlainPytorchZoobotModel(output_dim_, weights_loc, include_top, get_architecture_, representation_dim_) ==
    LET effnet == [backbone |-> get_architecture_, head |-> <<>>]
        with_top == [backbone |-> get_architecture_,
                     head |-> <<representation_dim_, output_dim_[1]>>]
    IN IF include_top /\ output_dim_ = <<>>
       THEN [raised |-> "AssertionError", modules_to_use |-> effnet, model |-> <<>>]
       ELSE LET modules == IF include_top THEN with_top ELSE effnet
            IN IF weights_loc # <<>>
               THEN [raised |-> "NotImplementedError", modules_to_use |-> modules,
                     model |-> <<>>]
               ELSE [raised |-> "none", modules_to_use |-> modules,
                     model |-> <<modules>>]

\* The names a caller passes: the seven the chain knows, the default of
\* only_for_me/narval/train.py's --architecture, and one more.
ArchitectureNames ==
    {"efficientnet", "efficientnet_b2", "efficientnetb2", "efficientnet_b4",
     "efficientnetb4", "resnet_detectron", "resnet_torchvision",
     "efficientnet_b0", "resnet"}

BuildArgs ==
    [output_dim : {<<>>, <<2>>, <<3>>},
     question_index_groups : { << <<0, 2>> >>, << <<0, 2>>, <<2, 3>> >> },
     weights_loc : {<<>>, <<"checkpoint.ckpt">>},
     include_top : BOOLEAN,
     architecture_name : ArchitectureNames]

\* Every other variable of the build is at rest.
BuildFrame ==
    UNCHANGED <<moduleVars, stepVars, ddpVars, trainVars, cacheVars, jpgVars,
                wdsVars>>

BuildInit ==
    /\ NoModule /\ NoStep /\ NoReplicas /\ NoTrain /\ NoCache /\ NoJpg /\ NoWds
    /\ build_pc = "called"
    /\ build_args \in BuildArgs
    /\ get_architecture = "none"
    /\ representation_dim = 0
    /\ loss_func = <<>>
    /\ modules_to_use = NoModules
    /\ model = <<>>
    /\ build_error = "none"

\* super().__init__(...): hparams saved, metrics set up.
GenericInit ==
    /\ build_pc = "called"
    /\ build_pc' = "generic"
    /\ BuildFrame
    /\ UNCHANGED <<build_args, get_architecture, representation_dim, loss_func,
                   modules_to_use, model, build_error>>

\* get_architecture, representation_dim = select_base_architecture_func_from_name(...)
SelectArchitecture ==
    /\ build_pc = "generic"
    /\ LET r == SelectBaseArchitectureFuncFromName(build_args.architecture_name)
       IN /\ build_error' = r.raised
          /\ build_pc' = IF r.raised = "none" THEN "selected" ELSE "raised"
          /\ get_architecture' = r.get_architecture
          /\ representation_dim' = r.representation_dim
    /\ BuildFrame
    /\ UNCHANGED <<build_args, loss_func, modules_to_use, model>>

\* self.loss_func = get_loss_func(question_index_groups)
GetLossFunc ==
    /\ build_pc = "selected"
    /\ build_pc' = "loss_func"
    /\ loss_func' = <<build_args.question_index_groups>>
    /\ BuildFrame
    /\ UNCHANGED <<build_args, get_architecture, representation_dim,
                   modules_to_use, model, build_error>>

\* self.model = get_plain_pytorch_zoobot_model(...)
GetModel ==
    /\ build_pc = "loss_func"
    /\ LET r == GetPlainPytorchZoobotModel(build_args.output_dim,
                    build_args.weights_loc, build_args.include_top,
                    get_architecture, representation_dim)
       IN /\ build_error' = r.raised
          /\ build_pc' = IF r.raised = "none" THEN "complete" ELSE "raised"
          /\ modules_to_use' = r.modules_to_use
          /\ model' = r.model
    /\ BuildFrame
    /\ UNCHANGED <<build_args, get_architecture, representation_dim, loss_func>>

BuildNext == GenericInit \/ SelectArchitecture \/ GetLossFunc \/ GetModel

SpecBuild == BuildInit /\ [][BuildNext]_vars


(***************************************************************************)
(* Properties                                                              *)
(***************************************************************************)

HasNaN(m) == \E i \in 1..Len(m) : \E q \in 1..Len(m[i]) : m[i][q].den = 0

\* The sum of all entries of a matrix without NaN (each is a whole number of
\* thousandths).
EntryTotal(m) ==
    SumInts([i \in 1..Len(m) |-> SumInts([q \in 1..Len(m[i]) |-> m[i][q].num])])

ColumnTotal(m, q) == SumInts([i \in 1..Len(m) |-> m[i][q].num])

RowTotal(m, i) == SumInts([q \in 1..Len(m[i]) |-> m[i][q].num])

\* The records of the sink whose name has this shape.
QuestionRecords ==
    {k \in 1..Len(logged) : Len(logged[k].name) = 4}

AccuracyRecords ==
    {k \in 1..Len(logged) : Tail(logged[k].name) = <<"_accuracy">>}

EpochLossRecords ==
    {k \in 1..Len(logged) : Tail(logged[k].name) = <<"/epoch_loss">>}

\* C1: in every phase, the scalar make_step returns is the mean over the
\* batch of the per-example sums over the questions: loss * batch = the sum
\* of all entries of the matrix (NaN if an entry is NaN).
C1_LossIsBatchMeanOfRowSums ==
    outputs # <<>> =>
        LET loss == outputs[1].loss
        IN  IF HasNaN(multiq_loss)
            THEN loss.den = 0
            ELSE /\ loss.den > 0
                 /\ loss.num * Len(multiq_loss)
                        = loss.den * EntryTotal(multiq_loss)

\* A test step over two examples and two questions whose row sums differ has
\* returned.
C1_Witness ==
    /\ outputs # <<>>
    /\ step_name = "test"
    /\ Len(multiq_loss) = 2
    /\ NumQuestions(multiq_loss) = 2
    /\ ~HasNaN(multiq_loss)
    /\ RowTotal(multiq_loss, 1) # RowTotal(multiq_loss, 2)
    /\ ColumnTotal(multiq_loss, 2) > 0

\* C3: a step whose loss computation fails is abandoned: the loss function
\* was called once, make_step returned nothing, the sink got no metric of the
\* step, the optimizer got nothing, nothing of the run goes on; and no step
\* whose loss computation fails gets past the loss call.
C3_FailedStepIsAbandoned ==
    /\ pc = "Raised" =>
          /\ loss_calls = 1
          /\ outputs = <<>>
          /\ logged = <<>>
          /\ handed = <<>>
          /\ ~ENABLED Next
    /\ (pc \notin {"idle", "Forward"} /\ LossRaises(labels, predictions)) =>
          pc = "Raised"

\* A training step has failed in the loss computation.
C3_Witness ==
    /\ pc = "Raised"
    /\ step_name = "train"
    /\ LossRaises(labels, predictions)

\* C4 as claimed: no metric of a step reaches the sink before the matrix is
\* reduced to a scalar, and the optimizer gets the loss only after Logged.
C4_NoMetricBeforeReduced ==
    /\ logged # <<>> => outputs # <<>>
    /\ handed # <<>> => pc = "Optimized"

StepOrder ==
    { <<"idle", "Forward">>, <<"Forward", "LossComputed">>,
      <<"Forward", "Raised">>, <<"LossComputed", "QuestionsLogged">>,
      <<"QuestionsLogged", "Reduced">>, <<"Reduced", "Logged">>,
      <<"Logged", "Optimized">>, <<"Logged", "idle">>,
      <<"Optimized", "idle">> }

\* C4, amended: a step goes Forward, LossComputed, Reduced, Logged in this
\* order (the only other way out is the failure of the loss call); the
\* per-question metrics reach the sink after the matrix is computed and
\* before it is reduced, every other metric only after the reduction; the
\* optimizer gets the loss only after Logged.
C4_StepOrder ==
    [][ /\ pc' # pc => <<pc, pc'>> \in StepOrder
        /\ (logged' # logged /\ logged' # <<>>) =>
              \/ /\ pc = "LossComputed"
                 /\ outputs' = <<>>
                 /\ \A k \in (Len(logged) + 1)..Len(logged') :
                       Len(logged'[k].name) = 4
              \/ /\ pc = "Reduced"
                 /\ outputs' # <<>>
                 /\ \A k \in (Len(logged) + 1)..Len(logged') :
                       Len(logged'[k].name) = 2
        /\ (handed' # handed /\ handed' # <<>>) =>
              /\ pc = "Logged"
              /\ handed' = <<outputs[1].loss>>
              /\ EpochLossRecords # {}
      ]_vars

\* A training step has logged its per-question metrics and not yet reduced
\* the matrix.
C4_Witness ==
    /\ pc = "QuestionsLogged"
    /\ step_name = "train"
    /\ logged # <<>>
    /\ outputs = <<>>

\* C5: once a step has logged its per-question metrics, the sink holds
\* exactly one of them for each column n of the matrix and no other,
\* keyed by the phase and by n; its value is the mean of column n over the
\* batch: value * batch = the sum of the column.
C5_OneMetricPerQuestion ==
    pc \in {"QuestionsLogged", "Reduced", "Logged", "Optimized"} =>
        /\ Cardinality(QuestionRecords) = NumQuestions(multiq_loss)
        /\ \A n \in 0..(NumQuestions(multiq_loss) - 1) :
              \E k \in QuestionRecords :
                 /\ logged[k].name[1] = step_name
                 /\ logged[k].name[3] = ToString(n)
                 /\ \A k2 \in QuestionRecords :
                       logged[k2].name[3] = ToString(n) => k2 = k
                 /\ IF \E i \in 1..Len(multiq_loss) :
                          multiq_loss[i][n + 1].den = 0
                    THEN logged[k].value.den = 0
                    ELSE /\ logged[k].value.den > 0
                         /\ logged[k].value.num * Len(multiq_loss)
                               = logged[k].value.den
                                    * ColumnTotal(multiq_loss, n + 1)

\* A validation step over two examples and two questions whose column sums
\* differ has logged its per-question metrics.
C5_Witness ==
    /\ pc = "QuestionsLogged"
    /\ step_name = "validation"
    /\ Len(multiq_loss) = 2
    /\ NumQuestions(multiq_loss) = 2
    /\ ~HasNaN(multiq_loss)
    /\ ColumnTotal(multiq_loss, 1) # ColumnTotal(multiq_loss, 2)
    /\ ColumnTotal(multiq_loss, 2) > 0

\* C6 as claimed: the loss of question n is logged under
\* {phase}/epoch_questions/question_{n}_loss.
C6_QuestionLossNameAsClaimed ==
    pc = "QuestionsLogged" =>
        \A n \in 0..(NumQuestions(multiq_loss) - 1) :
           \E k \in 1..Len(logged) :
              logged[k].name = <<step_name, "/epoch_questions/question_",
                                 ToString(n), "_loss">>

\* C6, amended: the loss of question n is logged under
\* {phase}/epoch_questions/question_{n}_loss:0 and the aggregate loss under
\* {phase}/epoch_loss; every name of a step is the phase label followed by a
\* pattern that does not depend on the phase.
C6_MetricNames ==
    /\ pc \in {"QuestionsLogged", "Reduced", "Logged", "Optimized"} =>
          \A n \in 0..(NumQuestions(multiq_loss) - 1) :
             \E k \in 1..Len(logged) :
                logged[k].name = <<step_name, "/epoch_questions/question_",
                                   ToString(n), "_loss:0">>
    /\ pc \in {"Logged", "Optimized"} =>
          \E k \in 1..Len(logged) :
             /\ logged[k].name = <<step_name, "/epoch_loss">>
             /\ logged[k].value = outputs[1].loss
    /\ \A k \in 1..Len(logged) :
          /\ Head(logged[k].name) = step_name
          /\ Tail(logged[k].name) \in
                { <<"/epoch_loss">>, <<"_accuracy">> }
                \cup { <<"/epoch_questions/question_", ToString(n), "_loss:0">> :
                          n \in 0..(NumQuestions(multiq_loss) - 1) }

\* A test step with two questions has logged all its metrics.
C6_Witness ==
    /\ pc = "Logged"
    /\ step_name = "test"
    /\ NumQuestions(multiq_loss) = 2
    /\ Len(logged) = 3

\* C7: log_outputs computes and logs the accuracy exactly when the
\* predictions have two entries per example; otherwise it logs no accuracy,
\* leaves both accumulators as they are, and completes (log_outputs can
\* always run once make_step has returned).
C7_AccuracyOnlyForBinary ==
    /\ [](pc = "Reduced" => ENABLED LogOutputs(step_name))
    /\ [][ (pc = "Reduced" /\ pc' = "Logged") =>
              IF Len(predictions[1]) = 2
              THEN /\ Cardinality({k \in 1..Len(logged') :
                          Tail(logged'[k].name) = <<"_accuracy">>}) = 1
                   /\ train_accuracy'.total + val_accuracy'.total
                         = train_accuracy.total + val_accuracy.total
                              + Len(predictions)
              ELSE /\ \A k \in 1..Len(logged') :
                          Tail(logged'[k].name) # <<"_accuracy">>
                   /\ train_accuracy' = train_accuracy
                   /\ val_accuracy' = val_accuracy
         ]_vars

\* A step whose predictions have three entries per example has completed
\* log_outputs without an accuracy.
C7_Witness ==
    /\ pc = "Logged"
    /\ Len(predictions[1]) = 3
    /\ AccuracyRecords = {}
    /\ EpochLossRecords # {}

RangesValid(groups) ==
    /\ \A q \in 1..Len(groups) : groups[q][1] < groups[q][2]
    /\ \A q1, q2 \in 1..Len(groups) :
          q1 # q2 =>
             \/ groups[q1][2] <= groups[q2][1]
             \/ groups[q2][2] <= groups[q1][1]

\* C9: a description with overlapping ranges or an empty range is rejected
\* at construction time: no module is ever constructed from one.
C9_InvalidRangesRejectedAtConstruction ==
    constructed => RangesValid(question_index_groups)

\* C10: each phase has its own accuracy accumulator: a step of another phase
\* never changes the training accumulator, and only validation steps change
\* the validation accumulator.
C10_AccumulatorPerPhase ==
    [][ /\ step_name # "train" => train_accuracy' = train_accuracy
        /\ step_name # "validation" => val_accuracy' = val_accuracy
      ]_vars

GlobalTotal ==
    SumInts([r \in 1..Len(replica_batch) |-> EntryTotal(replica_batch[r])])

\* C2: two replicas holding 3 and 5 examples: the combined loss is the sum of
\* the 8 per-example losses divided by 8.
C2_UnevenReplicasGlobalMean ==
    ( /\ combined # <<>>
      /\ Len(replica_batch) = 2
      /\ {Len(replica_batch[1]), Len(replica_batch[2])} = {3, 5} ) =>
        combined[1].num * 8 = combined[1].den * GlobalTotal

VotedEntries(m) ==
    {<<i, q>> \in (1..Len(m)) \X (1..NumQuestions(m)) :
        \E j \in (question_index_groups[q][1] + 1)..question_index_groups[q][2] :
           labels[i][j] # 0}

RECURSIVE SumOver(_, _)
SumOver(m, cells) ==
    IF cells = {}
    THEN 0
    ELSE LET c == CHOOSE x \in cells : TRUE
         IN  m[c[1]][c[2]].num + SumOver(m, cells \ {c})

\* C8: an example without votes in a question's slice has loss exactly 0 for
\* that question, whatever the (positive) concentrations are, and the scalar
\* make_step returns is made of the other entries alone.
C8_ZeroVotesZeroLoss ==
    multiq_loss # <<>> =>
        /\ \A i \in 1..Len(multiq_loss) :
              \A q \in 1..NumQuestions(multiq_loss) :
                 <<i, q>> \notin VotedEntries(multiq_loss) =>
                    multiq_loss[i][q] = [num |-> 0, den |-> 1]
        /\ outputs # <<>> =>
              outputs[1].loss.num * Len(multiq_loss)
                 = outputs[1].loss.den
                      * SumOver(multiq_loss, VotedEntries(multiq_loss))

\* make_step has returned for an example without votes in the first question,
\* with concentrations 0.01 and 50 there, and with votes in the second.
C8_Witness ==
    /\ pc = "Reduced"
    /\ labels[1] = <<0, 0, 2, 1>>
    /\ predictions[1] = <<1, 5000, 100, 100>>
    /\ outputs[1].loss.num > 0

(***************************************************************************)
(* train_with_keras.train up to the model definition.  A catalog is <<>>    *)
(* for None and <<n>> for a table of n rows.                               *)
(***************************************************************************)

\* The n up to 1000 for which the double product train_size * n lies just
\* below the whole number n * num / den: for 0.7 these sixteen, for 1./3.
\* none (python: [n for n in range(1001) if floor(0.7 * n) != 7 * n // 10]).
RoundsBelow(num, den) ==
    IF num = 7 /\ den = 10
    THEN {90, 170, 180, 330, 340, 350, 360, 650, 660, 670, 680, 690, 700, 710,
          720, 730}
    ELSE {}

\* floor(train_size * n) as python's floats give it, for the train sizes 0.7
\* and 1./3. of lines 50-51 and n up to 1000.
FloatFloor(n, num, den) ==
    (n * num) \div den - (IF n \in RoundsBelow(num, den) THEN 1 ELSE 0)

\* sklearn's train_test_split(table of n rows, train_size = num/den): the
\* train part is floor(train_size * n) rows, the rest is the other part, and
\* an empty train part is a ValueError.
TrainTestSplit(n, num, den) ==
    LET n_train == FloatFloor(n, num, den)
    IN [raised |-> IF n_train = 0 THEN "ValueError" ELSE "none",
        first |-> n_train, second |-> n - n_train]

\* Mutant of CheckCatalogs: a catalog, when given, wins over the splits, and
\* the splits are otherwise taken as they are.
CheckCatalogsCatalogWins(catalog, train_catalog, val_catalog, test_catalog) ==
    IF catalog # <<>>
    THEN LET a == TrainTestSplit(catalog[1], 7, 10)
             b == TrainTestSplit(a.second, 1, 3)
         IN IF a.raised # "none" \/ b.raised # "none"
            THEN [raised |-> "ValueError", splits |-> NoSplits]
            ELSE [raised |-> "none",
                  splits |-> [train |-> a.first, val |-> b.first, test |-> b.second]]
    ELSE IF train_catalog = <<>> \/ val_catalog = <<>> \/ test_catalog = <<>>
    THEN [raised |-> "TypeError", splits |-> NoSplits]
    ELSE [raised |-> "none",
          splits |-> [train |-> train_catalog[1], val |-> val_catalog[1],
                      test |-> test_catalog[1]]]

\* Lines 46-56: the exception they end with, and the three lengths if none.
\* len(None) is a TypeError, raised before the assert sees a value.
CheckCatalogs(catalog, train_catalog, val_catalog, test_catalog) ==
    IF catalog # <<>>
    THEN IF train_catalog # <<>> \/ val_catalog # <<>> \/ test_catalog # <<>>
         THEN [raised |-> "AssertionError", splits |-> NoSplits]
         ELSE LET a == TrainTestSplit(catalog[1], 7, 10)
                  b == TrainTestSplit(a.second, 1, 3)
              IN IF a.raised # "none" \/ b.raised # "none"
                 THEN [raised |-> "ValueError", splits |-> NoSplits]
                 ELSE [raised |-> "none",
                       splits |-> [train |-> a.first, val |-> b.first,
                                   test |-> b.second]]
    ELSE IF train_catalog = <<>> THEN [raised |-> "TypeError", splits |-> NoSplits]
    ELSE IF train_catalog[1] = 0 THEN [raised |-> "AssertionError", splits |-> NoSplits]
    ELSE IF val_catalog = <<>> THEN [raised |-> "TypeError", splits |-> NoSplits]
    ELSE IF val_catalog[1] = 0 THEN [raised |-> "AssertionError", splits |-> NoSplits]
    ELSE IF test_catalog = <<>> THEN [raised |-> "TypeError", splits |-> NoSplits]
    ELSE IF test_catalog[1] = 0 THEN [raised |-> "AssertionError", splits |-> NoSplits]
    ELSE [raised |-> "none",
          splits |-> [train |-> train_catalog[1], val |-> val_catalog[1],
                      test |-> test_catalog[1]]]

CatalogRows == 10

\* A catalog at which 0.7 * n rounds below 63.
LargeCatalogRows == 90

SplitRows == 3

MaxGpus == 2

\* has_columns: the catalogs have 'file_loc' and the schema's label columns.
TrainArgs ==
    [catalog : {<<>>, <<0>>, <<CatalogRows>>, <<LargeCatalogRows>>},
     train_catalog : {<<>>, <<0>>, <<SplitRows>>},
     val_catalog : {<<>>, <<0>>, <<SplitRows>>},
     test_catalog : {<<>>, <<0>>, <<SplitRows>>},
     save_dir : {<<>>, <<"save_dir">>},
     gpus : 1..MaxGpus,
     has_columns : BOOLEAN]

\* What train can find at save_dir: nothing (the parent is there), a
\* directory, something that is no directory, nothing and no parent either.
SaveDirPaths == {"absent", "dir", "file", "noparent"}

TrainFrame ==
    UNCHANGED <<moduleVars, stepVars, ddpVars, buildVars, cacheVars, jpgVars,
                wdsVars>>

TrainInit ==
    /\ NoModule /\ NoStep /\ NoReplicas /\ NoBuild /\ NoCache /\ NoJpg /\ NoWds
    /\ train_pc = "called"
    /\ train_args \in TrainArgs
    /\ splits = NoSplits
    /\ save_dir_path \in SaveDirPaths
    /\ dir_created = FALSE
    /\ datasets_built = FALSE
    /\ model_defined = FALSE
    /\ train_error = "none"

\* Lines 46-56.
SplitCatalogs ==
    /\ train_pc = "called"
    /\ LET r == CheckCatalogs(train_args.catalog, train_args.train_catalog,
                              train_args.val_catalog, train_args.test_catalog)
       IN /\ train_error' = r.raised
          /\ splits' = r.splits
          /\ train_pc' = IF r.raised = "none" THEN "split" ELSE "raised"
    /\ TrainFrame
    /\ UNCHANGED <<train_args, save_dir_path, dir_created, datasets_built,
                   model_defined>>

\* Lines 68-70: the assertion, then os.mkdir unless save_dir is a directory.
\* os.mkdir makes the last component only and is not guarded: it raises
\* FileNotFoundError when the parent is missing and FileExistsError when
\* something that is no directory is at save_dir.
MakeSaveDir ==
    /\ train_pc = "split"
    /\ IF train_args.save_dir = <<>>
       THEN /\ train_error' = "AssertionError"
            /\ train_pc' = "raised"
            /\ UNCHANGED <<save_dir_path, dir_created>>
       ELSE IF save_dir_path = "dir"
       THEN /\ train_pc' = "directory"
            /\ UNCHANGED <<save_dir_path, dir_created, train_error>>
       ELSE IF save_dir_path = "absent"
       THEN /\ train_pc' = "directory"
            /\ save_dir_path' = "dir"
            /\ dir_created' = TRUE
            /\ UNCHANGED train_error
       ELSE /\ train_error' = IF save_dir_path = "file"
                              THEN "FileExistsError" ELSE "FileNotFoundError"
            /\ train_pc' = "raised"
            /\ UNCHANGED <<save_dir_path, dir_created>>
    /\ TrainFrame
    /\ UNCHANGED <<train_args, splits, datasets_built, model_defined>>

\* Lines 72-93: with gpus > 1 a MirroredStrategy, whose number of replicas
\* is the machine's and is asserted to be gpus.
MakeStrategy ==
    /\ train_pc = "directory"
    /\ \E num_replicas_in_sync \in 1..MaxGpus :
          IF train_args.gpus > 1 /\ num_replicas_in_sync # train_args.gpus
          THEN /\ train_error' = "AssertionError"
               /\ train_pc' = "raised"
          ELSE /\ train_pc' = "strategy"
               /\ UNCHANGED train_error
    /\ TrainFrame
    /\ UNCHANGED <<train_args, splits, save_dir_path, dir_created,
                   datasets_built, model_defined>>

\* Lines 95-118: the columns are read (a KeyError if one is missing) and the
\* three get_image_dataset calls made; with check_valid_paths=True these
\* raise when a path is no file (paths_valid is the file system's answer).
BuildDatasets ==
    /\ train_pc = "strategy"
    /\ \E paths_valid \in BOOLEAN :
          IF ~train_args.has_columns
          THEN /\ train_error' = "KeyError"
               /\ train_pc' = "raised"
               /\ UNCHANGED datasets_built
          ELSE IF ~paths_valid
          THEN /\ train_error' = "InvalidPaths"
               /\ train_pc' = "raised"
               /\ UNCHANGED datasets_built
          ELSE /\ train_pc' = "datasets"
               /\ datasets_built' = TRUE
               /\ UNCHANGED train_error
    /\ TrainFrame
    /\ UNCHANGED <<train_args, splits, save_dir_path, dir_created,
                   model_defined>>

\* Lines 120-165: augmentations, batching, define_model.get_model.
DefineModel ==
    /\ train_pc = "datasets"
    /\ train_pc' = "model"
    /\ model_defined' = TRUE
    /\ TrainFrame
    /\ UNCHANGED <<train_args, splits, save_dir_path, dir_created,
                   datasets_built, train_error>>

TrainNext ==
    SplitCatalogs \/ MakeSaveDir \/ MakeStrategy \/ BuildDatasets \/ DefineModel

SpecTrain == TrainInit /\ [][TrainNext]_vars


(***************************************************************************)
(* only_for_me/narval/train.py, lines 65-132: the processes of one job,    *)
(* each finding or making its cache directory.  Every call to the file     *)
(* system is one step.                                                     *)
(***************************************************************************)
MaxProcs == 3

Procs == 1..MaxProcs

\* local_mode: /home/walml/repos/zoobot is a directory (line 65).
\* tmpdir: SLURM_TMPDIR is "unset", names a "missing" directory, or "exists".
\* shards_found: the pattern of line 79 matches a file.
CacheEnvs ==
    [local_mode : BOOLEAN,
     tmpdir : {"unset", "missing", "exists"},
     shards_found : BOOLEAN]

CacheFrame ==
    UNCHANGED <<moduleVars, stepVars, ddpVars, buildVars, trainVars, jpgVars,
                wdsVars>>

CacheInit ==
    /\ NoModule /\ NoStep /\ NoReplicas /\ NoBuild /\ NoTrain /\ NoJpg /\ NoWds
    /\ cache_pc = [p \in Procs |-> "start"]
    /\ cache_env \in CacheEnvs
    /\ cache_path \in {"absent", "dir", "file"}
    /\ cache_env.tmpdir # "exists" => cache_path = "absent"
    /\ cache_outcome = [p \in Procs |-> "none"]

\* Lines 65-72: local mode has no cache directory; otherwise cache_dir is
\* os.environ['SLURM_TMPDIR'] + '/cache', a KeyError if the variable is unset.
CacheDir(p) ==
    /\ cache_pc[p] = "start"
    /\ IF cache_env.local_mode
       THEN /\ cache_pc' = [cache_pc EXCEPT ![p] = "glob"]
            /\ cache_outcome' = [cache_outcome EXCEPT ![p] = "local"]
       ELSE IF cache_env.tmpdir = "unset"
       THEN /\ cache_pc' = [cache_pc EXCEPT ![p] = "terminated"]
            /\ cache_outcome' = [cache_outcome EXCEPT ![p] = "KeyError"]
       ELSE /\ cache_pc' = [cache_pc EXCEPT ![p] = "isdir"]
            /\ UNCHANGED cache_outcome
    /\ UNCHANGED <<cache_env, cache_path>>
    /\ CacheFrame

\* Line 73: if not os.path.isdir(cache_dir).
IsDir(p) ==
    /\ cache_pc[p] = "isdir"
    /\ IF cache_path = "dir"
       THEN /\ cache_pc' = [cache_pc EXCEPT ![p] = "glob"]
            /\ cache_outcome' = [cache_outcome EXCEPT ![p] = "found"]
       ELSE /\ cache_pc' = [cache_pc EXCEPT ![p] = "mkdir"]
            /\ UNCHANGED cache_outcome
    /\ UNCHANGED <<cache_env, cache_path>>
    /\ CacheFrame

\* Mutant of MkDir: os.mkdir outside a try, so that FileExistsError ends the
\* process.
MkDirUnguarded(p) ==
    /\ cache_pc[p] = "mkdir"
    /\ IF cache_env.tmpdir = "missing"
       THEN /\ cache_pc' = [cache_pc EXCEPT ![p] = "terminated"]
            /\ cache_outcome' = [cache_outcome EXCEPT ![p] = "FileNotFoundError"]
            /\ UNCHANGED cache_path
       ELSE IF cache_path # "absent"
       THEN /\ cache_pc' = [cache_pc EXCEPT ![p] = "terminated"]
            /\ cache_outcome' = [cache_outcome EXCEPT ![p] = "FileExistsError"]
            /\ UNCHANGED cache_path
       ELSE /\ cache_pc' = [cache_pc EXCEPT ![p] = "glob"]
            /\ cache_outcome' = [cache_outcome EXCEPT ![p] = "created"]
            /\ cache_path' = "dir"
    /\ UNCHANGED cache_env
    /\ CacheFrame

\* Lines 74-77: try: os.mkdir(cache_dir) except FileExistsError: pass.
\* os.mkdir raises FileNotFoundError when the parent is missing (not caught)
\* and FileExistsError when anything, directory or not, is at the path.
MkDir(p) ==
    /\ cache_pc[p] = "mkdir"
    /\ IF cache_env.tmpdir = "missing"
       THEN /\ cache_pc' = [cache_pc EXCEPT ![p] = "terminated"]
            /\ cache_outcome' = [cache_outcome EXCEPT ![p] = "FileNotFoundError"]
            /\ UNCHANGED cache_path
       ELSE IF cache_path # "absent"
       THEN /\ cache_pc' = [cache_pc EXCEPT ![p] = "glob"]
            /\ cache_outcome' = [cache_outcome EXCEPT ![p] = "passed"]
            /\ UNCHANGED cache_path
       ELSE /\ cache_pc' = [cache_pc EXCEPT ![p] = "glob"]
            /\ cache_outcome' = [cache_outcome EXCEPT ![p] = "created"]
            /\ cache_path' = "dir"
    /\ UNCHANGED cache_env
    /\ CacheFrame

\* Lines 79-132: the shards are listed, asserted to be some, and the
\* training call is made with cache_dir.
TrainCall(p) ==
    /\ cache_pc[p] = "glob"
    /\ IF cache_env.shards_found
       THEN /\ cache_pc' = [cache_pc EXCEPT ![p] = "training"]
            /\ UNCHANGED cache_outcome
       ELSE /\ cache_pc' = [cache_pc EXCEPT ![p] = "terminated"]
            /\ cache_outcome' = [cache_outcome EXCEPT ![p] = "AssertionError"]
    /\ UNCHANGED <<cache_env, cache_path>>
    /\ CacheFrame

CacheStep(p) == CacheDir(p) \/ IsDir(p) \/ MkDir(p) \/ TrainCall(p)

CacheNext == \E p \in Procs : CacheStep(p)

\* Every process that can take a step takes one in the end.
SpecCache ==
    /\ CacheInit
    /\ [][CacheNext]_vars
    /\ \A p \in Procs : WF_vars(CacheStep(p))

(***************************************************************************)
(* only_for_me/png_to_jpg.py: the pool's workers running to_jpg over the    *)
(* chunks of the image list.  Every call to the file system is one step.   *)
(* All images share one target directory.  (The script's own numbers, 100  *)
(* images in chunks of 1000, make a single chunk.)                         *)
(***************************************************************************)
MaxWorkers == 2

NumImages == 4

ChunkSize == 2

Workers == 1..MaxWorkers

Images == 1..NumImages

\* imap_unordered's tasks: consecutive runs of chunksize images.
Chunks ==
    { [i \in 1..(IF (k + 1) * ChunkSize <= NumImages
                 THEN ChunkSize ELSE NumImages - k * ChunkSize)
          |-> k * ChunkSize + i] :
        k \in 0..((NumImages - 1) \div ChunkSize) }

JpgFrame ==
    UNCHANGED <<moduleVars, stepVars, ddpVars, buildVars, trainVars, cacheVars,
                wdsVars>>

JpgInit ==
    /\ NoModule /\ NoStep /\ NoReplicas /\ NoBuild /\ NoTrain /\ NoCache /\ NoWds
    /\ jpg_pc = [w \in Workers |-> "idle"]
    /\ jpg_chunk = [w \in Workers |-> <<>>]
    /\ jpg_pending = Chunks
    /\ target_dir_exists \in BOOLEAN
    /\ jpg_exists \in SUBSET Images
    /\ jpg_exists # {} => target_dir_exists
    /\ jpg_writes = [i \in Images |-> 0]
    /\ jpg_error = [w \in Workers |-> "none"]
    /\ png_exists \in {Images} \cup {Images \ {i} : i \in Images}
    /\ jpg_results = <<>>
    /\ parent_pc = "iterating"
    /\ parent_seen = 0

\* A worker of the pool takes the next task, whatever its last one came to.
TakeChunk(w) ==
    /\ jpg_pc[w] = "idle"
    /\ \E c \in jpg_pending :
          /\ jpg_chunk' = [jpg_chunk EXCEPT ![w] = c]
          /\ jpg_pending' = jpg_pending \ {c}
    /\ jpg_pc' = [jpg_pc EXCEPT ![w] = "assert"]
    /\ UNCHANGED <<target_dir_exists, jpg_exists, jpg_writes, jpg_error,
                   png_exists, jpg_results, parent_pc, parent_seen>>
    /\ JpgFrame

\* to_jpg has returned for the head of the worker's chunk; after the last
\* image of the chunk the task's result goes to the parent.
Returned(w) ==
    /\ jpg_chunk' = [jpg_chunk EXCEPT ![w] = Tail(jpg_chunk[w])]
    /\ jpg_pc' = [jpg_pc EXCEPT
                     ![w] = IF Tail(jpg_chunk[w]) = <<>> THEN "idle" ELSE "assert"]
    /\ jpg_results' = IF Tail(jpg_chunk[w]) = <<>>
                      THEN Append(jpg_results, "ok") ELSE jpg_results
    /\ UNCHANGED jpg_error

\* to_jpg has raised: the rest of the chunk is not run, the exception is the
\* task's result, and the worker is free for the next task.
Raised(w, exception) ==
    /\ jpg_chunk' = [jpg_chunk EXCEPT ![w] = <<>>]
    /\ jpg_pc' = [jpg_pc EXCEPT ![w] = "idle"]
    /\ jpg_error' = [jpg_error EXCEPT ![w] = exception]
    /\ jpg_results' = Append(jpg_results, exception)

\* Line 11: assert os.path.isfile(image_loc).
AssertIsFile(w) ==
    /\ jpg_pc[w] = "assert"
    /\ IF Head(jpg_chunk[w]) \in png_exists
       THEN /\ jpg_pc' = [jpg_pc EXCEPT ![w] = "isfile"]
            /\ UNCHANGED <<jpg_chunk, jpg_error, jpg_results>>
       ELSE Raised(w, "AssertionError")
    /\ UNCHANGED <<jpg_pending, target_dir_exists, jpg_exists, jpg_writes,
                   png_exists, parent_pc, parent_seen>>
    /\ JpgFrame

\* Lines 12-13: if not os.path.isfile(jpg_loc).
IsFileJpg(w) ==
    /\ jpg_pc[w] = "isfile"
    /\ IF Head(jpg_chunk[w]) \in jpg_exists
       THEN Returned(w)
       ELSE /\ jpg_pc' = [jpg_pc EXCEPT ![w] = "isdir"]
            /\ UNCHANGED <<jpg_chunk, jpg_error, jpg_results>>
    /\ UNCHANGED <<jpg_pending, target_dir_exists, jpg_exists, jpg_writes,
                   png_exists, parent_pc, parent_seen>>
    /\ JpgFrame

\* Lines 14-15: if not os.path.isdir(target_dir).
IsDirTarget(w) ==
    /\ jpg_pc[w] = "isdir"
    /\ jpg_pc' = [jpg_pc EXCEPT
                     ![w] = IF target_dir_exists THEN "save" ELSE "mkdirs"]
    /\ UNCHANGED <<jpg_chunk, jpg_pending, target_dir_exists, jpg_exists,
                   jpg_writes, jpg_error, png_exists, jpg_results, parent_pc,
                   parent_seen>>
    /\ JpgFrame

\* Line 17: os.mkdirs(target_dir, exist_ok=True).  The os module has no
\* mkdirs (the recursive one is makedirs): the attribute lookup raises.
MkDirs(w) ==
    /\ jpg_pc[w] = "mkdirs"
    /\ Raised(w, "AttributeError")
    /\ UNCHANGED <<jpg_pending, target_dir_exists, jpg_exists, jpg_writes,
                   png_exists, parent_pc, parent_seen>>
    /\ JpgFrame

\* Line 18: Image.open(image_loc).save(jpg_loc).
Save(w) ==
    /\ jpg_pc[w] = "save"
    /\ IF target_dir_exists
       THEN /\ jpg_exists' = jpg_exists \cup {Head(jpg_chunk[w])}
            /\ jpg_writes' = [jpg_writes EXCEPT ![Head(jpg_chunk[w])] = @ + 1]
            /\ Returned(w)
       ELSE /\ Raised(w, "FileNotFoundError")
            /\ UNCHANGED <<jpg_exists, jpg_writes>>
    /\ UNCHANGED <<jpg_pending, target_dir_exists, png_exists, parent_pc,
                   parent_seen>>
    /\ JpgFrame

\* Lines 34-35: the parent's loop is given the next result; a result that is
\* an exception is raised there and ends the script, the last result ends
\* the loop (line 37).
ParentNext ==
    /\ parent_pc = "iterating"
    /\ jpg_results # <<>>
    /\ jpg_results' = Tail(jpg_results)
    /\ parent_seen' = parent_seen + 1
    /\ parent_pc' = IF Head(jpg_results) # "ok" THEN "raised"
                    ELSE IF parent_seen + 1 = Cardinality(Chunks) THEN "complete"
                    ELSE "iterating"
    /\ UNCHANGED <<jpg_pc, jpg_chunk, jpg_pending, target_dir_exists,
                   jpg_exists, jpg_writes, jpg_error, png_exists>>
    /\ JpgFrame

\* The script has ended with the exception: the pool goes with it, and its
\* workers are stopped wherever they are.
PoolTerminate ==
    /\ parent_pc = "raised"
    /\ parent_pc' = "exited"
    /\ jpg_pc' = [w \in Workers |-> "terminated"]
    /\ UNCHANGED <<jpg_chunk, jpg_pending, target_dir_exists, jpg_exists,
                   jpg_writes, jpg_error, png_exists, jpg_results, parent_seen>>
    /\ JpgFrame

JpgNext ==
    \/ \E w \in Workers :
          \/ TakeChunk(w) \/ AssertIsFile(w) \/ IsFileJpg(w)
          \/ IsDirTarget(w) \/ MkDirs(w) \/ Save(w)
    \/ ParentNext
    \/ PoolTerminate

SpecJpg == JpgInit /\ [][JpgNext]_vars

(***************************************************************************)
(* webdataset_utils: df_to_wds and make_mock_wds.  The table is the        *)
(* sequence of its rows, a row its position in the table, which stands for *)
(* its key; a path is the sequence of its pieces, with ".tar" a piece of   *)
(* its own wherever the path has it.  A file is its name, the keys of the  *)
(* samples written to it, and whether its TarWriter has yet to be closed.  *)
(* The images and labels make_mock_wds draws at random are not kept.       *)
(***************************************************************************)
MaxRows == 4

MaxShards == 3

MaxShardSize == 2

\* np.array_split(df, n_shards): n_shards runs of consecutive rows, the first
\* len(df) % n_shards of them one row longer than the others.
ArraySplit(df, n_shards_) ==
    LET each   == Len(df) \div n_shards_
        extras == Len(df) % n_shards_
        Size(k)  == IF k <= extras THEN each + 1 ELSE each
        Start(k) == (k - 1) * each + (IF k - 1 <= extras THEN k - 1 ELSE extras)
    IN  [k \in 1..n_shards_ |-> SubSeq(df, Start(k) + 1, Start(k) + Size(k))]

\* str.replace('.tar', suffix): every occurrence, none if there is none.
RECURSIVE Replace(_, _, _)
Replace(path, old, new) ==
    IF path = <<>> THEN <<>>
    ELSE (IF Head(path) = old THEN new ELSE <<Head(path)>>)
            \o Replace(Tail(path), old, new)

\* Line 47: save_loc.replace('.tar', f'_{shard_n}_{len(shard_df)}.tar').
ShardSaveLoc(save_loc, shard_n_, shard_df) ==
    Replace(save_loc, ".tar",
            <<"_", ToString(shard_n_), "_", ToString(Len(shard_df)), ".tar">>)

\* os.path.join(save_dir, name): a separator between the two unless
\* save_dir is empty or ends with one.
PathJoin(save_dir, name) ==
    IF save_dir = <<>> THEN name
    ELSE IF save_dir[Len(save_dir)] = "/" THEN save_dir \o name
    ELSE save_dir \o <<"/">> \o name

\* Line 24: the path of shard shard_n_ of make_mock_wds.
MockShard(save_dir, shard_n_, shard_size) ==
    PathJoin(save_dir, <<"mock_shard_", ToString(shard_n_), "_",
                         ToString(shard_size), ".tar">>)

\* Line 28: the key of sample galaxy_n, the same in every shard.
MockKey(galaxy_n) == <<"id_", ToString(galaxy_n)>>

\* dir_exists: the directory the files go to is there.  unreadable: the row
\* whose image cv2.imread cannot read, 0 if it can read them all.
WdsArgs ==
    { a \in [df : { [i \in 1..n |-> i] : n \in 0..MaxRows },
             n_shards : 1..MaxShards,
             save_loc : { <<"/data/shards", ".tar">>, <<"/data/shards">> },
             dir_exists : BOOLEAN,
             unreadable : 0..MaxRows] : a.unreadable <= Len(a.df) }

MockArgs ==
    [save_dir : { <<"/data">>, <<"/data", "/">>, <<>> },
     n_shards : 0..MaxShards,
     shard_size : 0..MaxShardSize,
     dir_exists : BOOLEAN]

WdsFrame ==
    UNCHANGED <<moduleVars, stepVars, ddpVars, buildVars, trainVars, cacheVars,
                jpgVars>>

WdsInit ==
    /\ NoModule /\ NoStep /\ NoReplicas /\ NoBuild /\ NoTrain /\ NoCache /\ NoJpg
    /\ \/ wds_pc = "called" /\ wds_args \in WdsArgs
       \/ wds_pc = "mock_called" /\ wds_args \in MockArgs
    /\ shard_dfs = <<>>
    /\ shards = <<>>
    /\ counter = 0
    /\ shard_n = 0
    /\ row_n = 0
    /\ files = {}
    /\ wds_error = "none"

\* wds.TarWriter(name): the file is opened for writing, which empties a file
\* of that name if there is one.
Opened(name) ==
    {f \in files : f.name # name}
        \cup {[name |-> name, rows |-> <<>>, open |-> TRUE]}

\* sink.write(sample) on the writer of the file called name.
Written(name, key) ==
    { IF f.name = name THEN [f EXCEPT !.rows = Append(@, key)] ELSE f :
        f \in files }

\* The shard of the current iteration and the path of its file.
ShardDf == shard_dfs[shard_n + 1]

CurrentSaveLoc == ShardSaveLoc(wds_args.save_loc, shard_n, ShardDf)

\* Line 43.
SplitTable ==
    /\ wds_pc = "called"
    /\ shard_dfs' = ArraySplit(wds_args.df, wds_args.n_shards)
    /\ wds_pc' = "loop"
    /\ UNCHANGED <<wds_args, shards, counter, shard_n, row_n, files,
                   wds_error>>
    /\ WdsFrame

\* Lines 46-49: the next shard and its wds.TarWriter, which raises when the
\* directory of the file is missing.
OpenSink ==
    /\ wds_pc = "loop"
    /\ shard_n < Len(shard_dfs)
    /\ IF wds_args.dir_exists
       THEN /\ files' = Opened(CurrentSaveLoc)
            /\ row_n' = 0
            /\ wds_pc' = "writing"
            /\ UNCHANGED wds_error
       ELSE /\ wds_error' = "FileNotFoundError"
            /\ wds_pc' = "raised"
            /\ UNCHANGED <<files, row_n>>
    /\ UNCHANGED <<wds_args, shard_dfs, shards, counter, shard_n>>
    /\ WdsFrame

\* Lines 50-51: sink.write(galaxy_to_wds(galaxy, label_cols)).  For an image
\* cv2.imread cannot read, cv2.cvtColor (line 58) raises cv2.error, and the
\* sink is left open.
SinkWrite ==
    /\ wds_pc = "writing"
    /\ row_n < Len(ShardDf)
    /\ IF ShardDf[row_n + 1] = wds_args.unreadable
       THEN /\ wds_error' = "cv2.error"
            /\ wds_pc' = "raised"
            /\ UNCHANGED <<files, row_n>>
       ELSE /\ files' = Written(CurrentSaveLoc, ShardDf[row_n + 1])
            /\ row_n' = row_n + 1
            /\ UNCHANGED <<wds_pc, wds_error>>
    /\ UNCHANGED <<wds_args, shard_dfs, shards, counter, shard_n>>
    /\ WdsFrame

\* Line 52: sink.close(), and on to the next iteration.
SinkClose ==
    /\ wds_pc = "writing"
    /\ row_n = Len(ShardDf)
    /\ files' = { IF f.name = CurrentSaveLoc
                  THEN [f EXCEPT !.open = FALSE] ELSE f : f \in files }
    /\ shard_n' = shard_n + 1
    /\ wds_pc' = "loop"
    /\ UNCHANGED <<wds_args, shard_dfs, shards, counter, row_n, wds_error>>
    /\ WdsFrame

\* The loop is exhausted: df_to_wds returns.
WdsReturn ==
    /\ wds_pc = "loop"
    /\ shard_n = Len(shard_dfs)
    /\ wds_pc' = "returned"
    /\ UNCHANGED <<wds_args, shard_dfs, shards, counter, shard_n, row_n,
                   files, wds_error>>
    /\ WdsFrame

\* Lines 23-24 of make_mock_wds: the counter and the paths of the shards.
MockShards ==
    /\ wds_pc = "mock_called"
    /\ shards' = [k \in 1..wds_args.n_shards |->
                    MockShard(wds_args.save_dir, k - 1, wds_args.shard_size)]
    /\ counter' = 0
    /\ wds_pc' = "mock_loop"
    /\ UNCHANGED <<wds_args, shard_dfs, shard_n, row_n, files, wds_error>>
    /\ WdsFrame

\* Lines 25-26: the next shard and its wds.TarWriter.  The writer of the
\* shard before is not closed.  A shard of no samples is done at once.
MockOpenSink ==
    /\ wds_pc = "mock_loop"
    /\ shard_n < Len(shards)
    /\ IF wds_args.dir_exists
       THEN /\ files' = Opened(shards[shard_n + 1])
            /\ row_n' = 0
            /\ IF wds_args.shard_size = 0
               THEN shard_n' = shard_n + 1 /\ wds_pc' = "mock_loop"
               ELSE wds_pc' = "mock_writing" /\ UNCHANGED shard_n
            /\ UNCHANGED wds_error
       ELSE /\ wds_error' = "FileNotFoundError"
            /\ wds_pc' = "raised"
            /\ UNCHANGED <<files, row_n, shard_n>>
    /\ UNCHANGED <<wds_args, shard_dfs, shards, counter>>
    /\ WdsFrame

\* Lines 27-34: sample galaxy_n is written and counted; after the last one
\* of the shard the outer loop goes on, with no sink.close().
MockSinkWrite ==
    /\ wds_pc = "mock_writing"
    /\ row_n < wds_args.shard_size
    /\ files' = Written(shards[shard_n + 1], MockKey(row_n))
    /\ counter' = counter + 1
    /\ row_n' = row_n + 1
    /\ IF row_n + 1 = wds_args.shard_size
       THEN shard_n' = shard_n + 1 /\ wds_pc' = "mock_loop"
       ELSE UNCHANGED <<shard_n, wds_pc>>
    /\ UNCHANGED <<wds_args, shard_dfs, shards, wds_error>>
    /\ WdsFrame

\* Lines 35-36: make_mock_wds prints the counter and returns shards.
MockReturn ==
    /\ wds_pc = "mock_loop"
    /\ shard_n = Len(shards)
    /\ wds_pc' = "mock_returned"
    /\ UNCHANGED <<wds_args, shard_dfs, shards, counter, shard_n, row_n,
                   files, wds_error>>
    /\ WdsFrame

WdsNext ==
    \/ SplitTable \/ OpenSink \/ SinkWrite \/ SinkClose \/ WdsReturn
    \/ MockShards \/ MockOpenSink \/ MockSinkWrite \/ MockReturn

SpecWds == WdsInit /\ [][WdsNext]_vars


(***************************************************************************)
(* Construction                                                            *)
(***************************************************************************)
BuildEnded == build_pc \in {"complete", "raised"}

\* C11: when get_plain_pytorch_zoobot_model (and so the module's __init__)
\* is called with weights_loc as a string, and nothing else about the call
\* is at fault, it returns a model (with the checkpoint's weights loaded).
C11_WeightsLocReturnsLoadedModel ==
    (/\ BuildEnded
     /\ build_args.weights_loc # <<>>
     /\ build_error \notin {"ValueError", "AssertionError"})
        => model # <<>>

\* What select_base_architecture_func_from_name is to answer, name by name.
Registry ==
    { [name |-> "efficientnet", factory |-> "efficientnet_standard.efficientnet_b0",
       dim |-> 1280],
      [name |-> "efficientnet_b2", factory |-> "efficientnet_standard.efficientnet_b2",
       dim |-> 1408],
      [name |-> "efficientnetb2", factory |-> "efficientnet_standard.efficientnet_b2",
       dim |-> 1408],
      [name |-> "efficientnet_b4", factory |-> "efficientnet_standard.efficientnet_b4",
       dim |-> 1792],
      [name |-> "efficientnetb4", factory |-> "efficientnet_standard.efficientnet_b4",
       dim |-> 1792],
      [name |-> "resnet_detectron", factory |-> "resnet_detectron2_custom.get_resnet",
       dim |-> 2048],
      [name |-> "resnet_torchvision", factory |-> "resnet_torchvision_custom.get_resnet",
       dim |-> 2048] }

\* C15: once the architecture has been selected, a name of the registry has
\* given exactly its (factory, representation_dim) pair, aliases the same
\* pair, and no ValueError; every other name has ended construction with a
\* ValueError, with no default taken, no loss function and no model built.
C15_ArchitectureRegistry ==
    build_pc \in {"selected", "loss_func", "complete", "raised"} =>
        LET known == {e \in Registry : e.name = build_args.architecture_name}
        IN IF known # {}
           THEN /\ \A e \in known : /\ get_architecture = e.factory
                                   /\ representation_dim = e.dim
                /\ build_error # "ValueError"
           ELSE /\ build_pc = "raised"
                /\ build_error = "ValueError"
                /\ get_architecture = "none"
                /\ loss_func = <<>>
                /\ modules_to_use = NoModules
                /\ model = <<>>

\* --architecture efficientnet_b0, the default of narval/train.py, is not a
\* name of the chain: construction has ended in the ValueError.
C15_Witness ==
    /\ build_pc = "raised"
    /\ build_args.architecture_name = "efficientnet_b0"
    /\ build_error = "ValueError"
    /\ model = <<>>

(***************************************************************************)
(* The catalogs of train_with_keras.train                                  *)
(***************************************************************************)
\* A split that is absent or empty.
Unusable(split) == split = <<>> \/ split[1] = 0

\* A catalog together with a split, or no catalog and a split unusable.
MixedOrMissing ==
    IF train_args.catalog # <<>>
    THEN \/ train_args.train_catalog # <<>>
         \/ train_args.val_catalog # <<>>
         \/ train_args.test_catalog # <<>>
    ELSE \/ Unusable(train_args.train_catalog)
         \/ Unusable(train_args.val_catalog)
         \/ Unusable(train_args.test_catalog)

\* The first of the three splits that is unusable is an absent one.
FirstUnusableIsAbsent ==
    LET s == <<train_args.train_catalog, train_args.val_catalog,
               train_args.test_catalog>>
        first == CHOOSE i \in 1..3 :
                    Unusable(s[i]) /\ \A j \in 1..(i - 1) : ~Unusable(s[j])
    IN s[first] = <<>>

NothingStarted == ~dir_created /\ ~datasets_built /\ ~model_defined

\* C12 as stated: on a catalog given with a split, or no catalog and a split
\* absent or empty, train fails with an assertion before any directory is
\* created, any dataset built or any model defined.
C12_MixFailsWithAssertion ==
    (train_pc \notin {"none", "called"} /\ MixedOrMissing) =>
        /\ train_pc = "raised"
        /\ train_error = "AssertionError"
        /\ NothingStarted

\* C12, amended: on such arguments train fails before any directory is
\* created, any dataset built or any model defined; the failure is an
\* AssertionError, except that it is the TypeError of len(None) when no
\* catalog is given and the first unusable split is an absent one.
C12_MixFailsBeforeAnyWork ==
    (train_pc \notin {"none", "called"} /\ MixedOrMissing) =>
        /\ train_pc = "raised"
        /\ NothingStarted
        /\ train_error =
              IF train_args.catalog = <<>> /\ FirstUnusableIsAbsent
              THEN "TypeError" ELSE "AssertionError"

\* A catalog and a train split together: the assertion of line 47.
C12_Witness ==
    /\ train_pc = "raised"
    /\ train_args.catalog = <<CatalogRows>>
    /\ train_args.train_catalog = <<SplitRows>>
    /\ train_error = "AssertionError"
    /\ save_dir_path = "absent"

(***************************************************************************)
(* Replicas holding the same number of examples                            *)
(***************************************************************************)
EqualShards ==
    \A r, s \in 1..Len(replica_batch) :
        Len(replica_batch[r]) = Len(replica_batch[s])

ExamplesHeld ==
    SumInts([r \in 1..Len(replica_batch) |-> Len(replica_batch[r])])

\* C13: with R replicas each holding b examples, a replica's loss is the sum
\* of its per-example losses over b * R (tensorflow) or over b (pytorch), and
\* the combined loss, the sum of the former or the average of the latter, is
\* the mean of the per-example losses over all R * b examples.
C13_EqualReplicasGlobalMean ==
    EqualShards =>
        /\ \A r \in 1..Len(replica_loss) :
              replica_loss[r] # <<>> =>
                 LET b == Len(replica_batch[r])
                     divisor == IF framework = "tensorflow"
                                THEN b * Len(replica_batch) ELSE b
                 IN replica_loss[r][1].num * divisor =
                       replica_loss[r][1].den * EntryTotal(replica_batch[r])
        /\ combined # <<>> =>
              combined[1].num * ExamplesHeld = combined[1].den * GlobalTotal

\* Two tensorflow replicas of equal size whose losses differ have been
\* combined.
C13_Witness ==
    /\ framework = "tensorflow"
    /\ combined # <<>>
    /\ Len(replica_batch) = 2
    /\ Len(replica_batch[1]) = Len(replica_batch[2])
    /\ Len(replica_batch[1]) >= 2
    /\ replica_loss[1] # replica_loss[2]

(***************************************************************************)
(* The order of the arguments on the way to the Loss Engine                *)
(***************************************************************************)
\* C14: the loss matrix of a step is the Loss Engine's value with the vote
\* counts of the batch (labels) in the label position and the model's output
\* (predictions) in the concentration position, for every example and
\* question: make_step and loss_func between them never swap the two.
C14_PredictionsAreConcentrations ==
    multiq_loss # <<>> =>
        \A i \in 1..Len(labels) :
            \A q \in 1..Len(question_index_groups) :
                multiq_loss[i][q] =
                    DirichletMultinomialLoss(
                        Slice(labels[i], question_index_groups[q]),
                        Slice(predictions[i], question_index_groups[q]))

\* A loss has been computed where swapping the tensors would change it.
C14_Witness ==
    /\ pc = "LossComputed"
    /\ labels = << <<1, 1, 2, 1>> >>
    /\ predictions = << <<200, 100, 100, 100>> >>
    /\ multiq_loss # <<>>
    /\ multiq_loss[1][1] #
          DirichletMultinomialLoss(<<2, 1>>, <<100, 100>>)

(***************************************************************************)
(* The cache directory of narval/train.py                                  *)
(***************************************************************************)
\* Process p is past lines 73-77.
PastCreation(p) ==
    \/ cache_pc[p] \in {"glob", "training"}
    \/ cache_pc[p] = "terminated" /\ cache_outcome[p] = "AssertionError"

\* C16 as stated: on the cluster (SLURM_TMPDIR an existing directory), with
\* no cache directory yet, under every interleaving of the existence checks
\* and the directory creations no process terminates, a process past the
\* creation has the directory, and every process reaches the training call.
C16_EveryProcessReachesTraining ==
    (/\ ~cache_env.local_mode
     /\ cache_env.tmpdir = "exists"
     /\ cache_path # "dir") =>
        /\ [](\A p \in Procs :
                 /\ cache_pc[p] # "terminated"
                 /\ PastCreation(p) => cache_path = "dir")
        /\ <>(\A p \in Procs : cache_pc[p] = "training" /\ cache_path = "dir")

\* The cluster as the script expects it: SLURM_TMPDIR is an existing
\* directory and nothing but a directory can be at the cache path.
ClusterReady ==
    /\ ~cache_env.local_mode
    /\ cache_env.tmpdir = "exists"
    /\ cache_path # "file"

\* C16, amended: on a ready cluster, under every interleaving, no process is
\* ended by the creation of the directory (by another process or at all),
\* and a process past the creation has the directory; every process then
\* reaches the training call if the shards are found, and ends in the
\* assertion of line 80 if not.
C16_RaceIsHarmless ==
    /\ [](ClusterReady =>
             \A p \in Procs :
                 /\ cache_outcome[p] \notin
                       {"KeyError", "FileExistsError", "FileNotFoundError"}
                 /\ PastCreation(p) => cache_path = "dir")
    /\ (ClusterReady /\ cache_env.shards_found) =>
          <>(\A p \in Procs : cache_pc[p] = "training" /\ cache_path = "dir")
    /\ (ClusterReady /\ ~cache_env.shards_found) =>
          <>(\A p \in Procs : /\ cache_pc[p] = "terminated"
                              /\ cache_outcome[p] = "AssertionError")

\* All are training; one created the directory and another one, which had
\* seen it missing, met FileExistsError and passed.
C16_Witness ==
    /\ \A p \in Procs : cache_pc[p] = "training"
    /\ \E p, q \in Procs : /\ cache_outcome[p] = "created"
                           /\ cache_outcome[q] = "passed"
    /\ cache_path = "dir"

(***************************************************************************)
(* The pool of png_to_jpg.py                                               *)
(***************************************************************************)
JpgAllDone ==
    /\ jpg_pending = {}
    /\ \A w \in DOMAIN jpg_pc : jpg_pc[w] = "idle"

\* C17: with every source image in place, under every interleaving no call
\* of to_jpg ends in an error (in a worker or, passed on, in the parent);
\* when the pool is done the jpeg of every image exists; and a call for an
\* image whose jpeg exists already returns with nothing written.
C17_EveryCallCompletes ==
    /\ [](png_exists = Images =>
             /\ \A w \in DOMAIN jpg_error : jpg_error[w] = "none"
             /\ parent_pc \notin {"raised", "exited"}
             /\ JpgAllDone => jpg_exists = Images)
    /\ [][\A w \in DOMAIN jpg_pc :
            (/\ jpg_pc[w] = "isfile"
             /\ Head(jpg_chunk[w]) \in jpg_exists
             /\ jpg_pc'[w] \in {"idle", "assert"})
                => (jpg_writes' = jpg_writes /\ jpg_exists' = jpg_exists)]_vars

(***************************************************************************)
(* The shards of df_to_wds                                                 *)
(***************************************************************************)
\* How often row r occurs in the rows of file f.
Occurrences(f, r) == Cardinality({i \in 1..Len(f.rows) : f.rows[i] = r})

\* C18: when df_to_wds has returned there are n_shards shard files; every
\* row of the table is in exactly one of them, once; the rows of a file are
\* in the table's order, and the files in the order of their indices make up
\* the table; the sizes of any two files differ by at most one; and each
\* file is named with its shard index and the number of rows it holds.
C18_EveryRowInExactlyOneShard ==
    wds_pc = "returned" =>
        /\ Cardinality(files) = wds_args.n_shards
        /\ \A r \in 1..Len(wds_args.df) :
              /\ Cardinality({f \in files : Occurrences(f, r) > 0}) = 1
              /\ \A f \in files : Occurrences(f, r) <= 1
        /\ \A f \in files :
              \A i, j \in 1..Len(f.rows) : i < j => f.rows[i] < f.rows[j]
        /\ \A f, g \in files : Len(f.rows) - Len(g.rows) <= 1
        /\ \A f \in files :
              \E k \in 0..(wds_args.n_shards - 1) :
                 /\ f.name = <<"/data/shards", "_", ToString(k), "_",
                               ToString(Len(f.rows)), ".tar">>
                 /\ f.rows = shard_dfs[k + 1]

====
